---- MODULE Spec2Model ----
(***************************************************************************)
(* AsyncHTTPRequest: the HTTP/1.1 request state machine, its segmented     *)
(* Buffer and its notification dispatch, as a state machine.               *)
(*                                                                         *)
(* Bytes are one-character strings; a C string or a byte array is a        *)
(* sequence of them.  The request object's fields are the variables of     *)
(* the same names.  The private methods that work on the object while a    *)
(* handler runs are operators on a record `m` of those fields, so that a   *)
(* handler that calls several of them is one action.                       *)
(***************************************************************************)
EXTENDS Integers, Sequences, FiniteSets, TLC

\* ------------------------------------------------------------------ bytes

CR == "\r"
LF == "\n"
SP == " "
TAB == "\t"
\* The value of a byte of a value-initialised Fragment that was never written.
NUL == "NUL"

Digits == {"0", "1", "2", "3", "4", "5", "6", "7", "8", "9"}

DigitValue(c) ==
    CASE c = "0" -> 0 [] c = "1" -> 1 [] c = "2" -> 2 [] c = "3" -> 3
      [] c = "4" -> 4 [] c = "5" -> 5 [] c = "6" -> 6 [] c = "7" -> 7
      [] c = "8" -> 8 [] c = "9" -> 9

DigitChar(d) ==
    CASE d = 0 -> "0" [] d = 1 -> "1" [] d = 2 -> "2" [] d = 3 -> "3"
      [] d = 4 -> "4" [] d = 5 -> "5" [] d = 6 -> "6" [] d = 7 -> "7"
      [] d = 8 -> "8" [] d = 9 -> "9"

isdigit(c) == c \in Digits

Min(a, b) == IF a < b THEN a ELSE b

\* tolower() on the letters that occur in the header names the code compares.
tolower(c) ==
    CASE c = "A" -> "a" [] c = "B" -> "b" [] c = "C" -> "c" [] c = "D" -> "d"
      [] c = "E" -> "e" [] c = "F" -> "f" [] c = "G" -> "g" [] c = "H" -> "h"
      [] c = "I" -> "i" [] c = "J" -> "j" [] c = "K" -> "k" [] c = "L" -> "l"
      [] c = "M" -> "m" [] c = "N" -> "n" [] c = "O" -> "o" [] c = "P" -> "p"
      [] c = "Q" -> "q" [] c = "R" -> "r" [] c = "S" -> "s" [] c = "T" -> "t"
      [] c = "U" -> "u" [] c = "V" -> "v" [] c = "W" -> "w" [] c = "X" -> "x"
      [] c = "Y" -> "y" [] c = "Z" -> "z" [] OTHER -> c

\* strcasecmp(a, b) == 0
strcaseeq(a, b) ==
    /\ Len(a) = Len(b)
    /\ \A i \in 1..Len(a) : tolower(a[i]) = tolower(b[i])

\* strchr(s, c): the 1-based index of the first c in s, 0 for a null result.
strchr(s, c) ==
    IF \E i \in 1..Len(s) : s[i] = c
    THEN CHOOSE i \in 1..Len(s) : s[i] = c /\ \A j \in 1..(i - 1) : s[j] # c
    ELSE 0

\* strspn(s, set): the length of the longest prefix of s made of bytes of set.
strspn(s, set) ==
    IF \A i \in 1..Len(s) : s[i] \in set THEN Len(s)
    ELSE (CHOOSE i \in 1..Len(s) : s[i] \notin set /\ \A j \in 1..(i - 1) : s[j] \in set) - 1

\* The suffix of s that starts n bytes in (pointer arithmetic s + n).
Skip(s, n) == SubSeq(s, n + 1, Len(s))

RECURSIVE parseIntegerFrom(_, _)
parseIntegerFrom(string, value) ==
    IF Len(string) > 0 /\ isdigit(string[1])
    THEN parseIntegerFrom(Tail(string), value * 10 + DigitValue(string[1]))
    ELSE value

parseInteger(string) == parseIntegerFrom(string, 0)

\* String(n): the decimal digits of n.
RECURSIVE StringOf(_)
StringOf(n) ==
    IF n < 10 THEN <<DigitChar(n)>>
    ELSE Append(StringOf(n \div 10), DigitChar(n % 10))

\* ----------------------------------------------------------------- Buffer

HTTP_BUFFER_FRAGMENT_SIZE == 512
HTTP_MAX_LINE_LENGTH == 512

\* A Buffer is [start, end, frags]: frags is the chain first..last, each
\* fragment the bytes written to it so far (the bytes after them are NUL).
\* first == nullptr is frags = <<>>.
NewBuffer == [start |-> 0, end |-> 0, frags |-> <<>>]

\* available() as it would be if it forgot the bytes consumed.
available_end(b) == b.end

available(b) == b.end - b.start

\* fragment->data[i], i counted from 0.
FragByte(frag, i) == IF i + 1 <= Len(frag) THEN frag[i + 1] ELSE NUL

\* A copy to the start of the fragment, whatever the offset.
FragStore_atStart(frag, offset, data) == data

\* memcpy(fragment->data + offset, data, Len(data))
FragStore(frag, offset, data) ==
    LET n == IF Len(frag) > offset + Len(data) THEN Len(frag) ELSE offset + Len(data)
    IN  [i \in 1..n |->
            IF i > offset /\ i <= offset + Len(data) THEN data[i - offset]
            ELSE IF i <= Len(frag) THEN frag[i] ELSE NUL]

RECURSIVE Buffer_write(_, _)
Buffer_write(b, data) ==
    IF Len(data) = 0 THEN b
    ELSE
      LET frags1 == IF b.frags = <<>> THEN << <<>> >>
                    ELSE IF b.end % HTTP_BUFFER_FRAGMENT_SIZE = 0
                         THEN Append(b.frags, <<>>)
                         ELSE b.frags
          offset == b.end % HTTP_BUFFER_FRAGMENT_SIZE
          to_copy == Min(HTTP_BUFFER_FRAGMENT_SIZE - offset, Len(data))
          last == Len(frags1)
          frags2 == [frags1 EXCEPT ![last] = FragStore(frags1[last], offset, SubSeq(data, 1, to_copy))]
      IN  Buffer_write([b EXCEPT !.frags = frags2, !.end = b.end + to_copy],
                       Skip(data, to_copy))

\* read() as it would be if it kept the fragments it has emptied.
Buffer_read_keeps(start) == FALSE

\* Buffer::read deletes the first fragment when `start` has reached its end.
Buffer_read_frees(start) == start % HTTP_BUFFER_FRAGMENT_SIZE = 0

\* The loop of Buffer::read: r is [buf, data], length the clamped length.
RECURSIVE Buffer_read_loop(_, _)
Buffer_read_loop(r, length) ==
    IF Len(r.data) < length
    THEN
      LET b == r.buf
          offset == b.start % HTTP_BUFFER_FRAGMENT_SIZE
          left == Min(HTTP_BUFFER_FRAGMENT_SIZE - offset, length - Len(r.data))
          copied == [i \in 1..left |-> FragByte(b.frags[1], offset + i - 1)]
          start1 == b.start + left
          frags1 == IF Buffer_read_frees(start1) THEN Tail(b.frags) ELSE b.frags
      IN  Buffer_read_loop([buf |-> [b EXCEPT !.start = start1, !.frags = frags1],
                            data |-> r.data \o copied], length)
    ELSE r

\* Buffer::read(data, length): [buf, data] with data the bytes copied out;
\* the return value is Len(data).
Buffer_read(b, length) ==
    LET Reset(r) == IF r.buf.start = r.buf.end
                    THEN [buf |-> NewBuffer, data |-> r.data]
                    ELSE r
    IN  Reset(Buffer_read_loop([buf |-> b, data |-> <<>>], Min(length, available(b))))

\* consume() as it would be if it left the bytes where they are.
Buffer_consume_nothing(b, length) == b

\* Buffer::consume(length) is read(nullptr, length).
Buffer_consume(b, length) == Buffer_read(b, length).buf

Buffer_clear(b) == NewBuffer

\* Buffer::get(&length): [data, length]; data = <<>> with length 0 is nullptr.
Buffer_get(b, length) ==
    LET offset == b.start % HTTP_BUFFER_FRAGMENT_SIZE
        l1 == Min(length, available(b))
        l2 == Min(l1, HTTP_BUFFER_FRAGMENT_SIZE - offset)
    IN  IF l2 = 0 THEN [data |-> <<>>, length |-> 0]
        ELSE [data |-> [i \in 1..l2 |-> FragByte(b.frags[1], offset + i - 1)], length |-> l2]

\* The bytes a Buffer holds, oldest first.
Contents(b) == Buffer_read(b, available(b)).data

\* Buffer::readline(data, length): [found, line, buf, ub]; found = FALSE is
\* the NULL result.  The loop walks the chain from data[start % size] of the
\* first fragment and counts the bytes in n until it meets a newline.  Bytes
\* past `end` in the last fragment are NUL, so the first newline it can meet
\* is the first one among the buffered bytes, at n = k.  Without one it walks
\* to the end of the last fragment and sets fragment = fragment->next, a null
\* pointer, and i = 0; the loop condition `fragment || i < end % size` then
\* lets it go on exactly when end is not a multiple of the fragment size, and
\* the next thing it does is read fragment->data[0]: ub.
Buffer_readline(b, length) ==
    LET Line(r, n, cr) ==
            [found |-> TRUE, line |-> SubSeq(r.data, 1, n - (IF cr THEN 2 ELSE 1)),
             buf |-> r.buf, ub |-> FALSE]
        Scan(d, k) ==
            IF k = 0
            THEN [found |-> FALSE, line |-> <<>>, buf |-> b,
                  ub |-> b.frags # <<>> /\ b.end % HTTP_BUFFER_FRAGMENT_SIZE # 0]
            ELSE IF k > length
            THEN Line(Buffer_read(b, length), length, FALSE)
            ELSE Line(Buffer_read(b, k), k, k > 1 /\ d[k - 1] = CR)
        First(d) == Scan(d, strchr(d, LF))
    IN  First(Contents(b))

\* -------------------------------------------------------------------- URL

S_http == <<"h", "t", "t", "p">>
S_https == <<"h", "t", "t", "p", "s">>

\* URL::URL(url)
URL(url) ==
    LET colon == strchr(url, ":")
    IN  IF colon = 0
        THEN [scheme |-> url, host |-> <<>>, port |-> 0, path |-> <<>>]
        ELSE
          LET scheme == SubSeq(url, 1, colon - 1)
              rest == Skip(url, colon)
          IN  IF ~(Len(rest) >= 2 /\ rest[1] = "/" /\ rest[2] = "/")
              THEN [scheme |-> scheme, host |-> <<>>, port |-> 0, path |-> rest]
              ELSE
                LET rest2 == Skip(rest, 2)
                    slash == IF strchr(rest2, "/") = 0 THEN Len(rest2) + 1
                             ELSE strchr(rest2, "/")
                    colon2 == strchr(rest2, ":")
                    has_port == colon2 # 0 /\ colon2 < slash
                    host_end == IF has_port THEN colon2 ELSE slash
                IN  [scheme |-> scheme,
                     host |-> SubSeq(rest2, 1, host_end - 1),
                     port |-> IF has_port THEN parseInteger(Skip(rest2, colon2))
                              ELSE IF scheme = S_http THEN 80
                              ELSE IF scheme = S_https THEN 443 ELSE 0,
                     path |-> Skip(rest2, slash - 1)]

\* ------------------------------------------------- the request object

\* A pointer to a Buffer is <<>> when null and <<b>> when it points at b.
NullPtr == <<>>
\* A `const char* detail` is <<>> when null and <<text>> otherwise.
NoDetail == <<>>
\* TaskHandle_t: no task, or the one task that reads.
NoTask == "none"

States == {"EMPTY", "ERROR", "CONNECTING", "SENDING_REQUEST", "SENDING_BODY",
           "RECEIVING_STATUS_LINE", "RECEIVING_HEADERS", "RECEIVING_BODY", "COMPLETE"}

Errors == {"ERROR_OK", "ERROR_SCHEME", "ERROR_IN_USE", "ERROR_CANNOT_CONNECT",
           "ERROR_TIMEOUT", "ERROR_CONNECTION_CLOSED"}

\* The base text handleError stores in lastErrorString.
ErrorText(e) ==
    CASE e = "ERROR_OK" -> "No error"
      [] e = "ERROR_SCHEME" -> "Unsupported URL scheme"
      [] e = "ERROR_IN_USE" -> "Request already started"
      [] e = "ERROR_CANNOT_CONNECT" -> "Cannot connect"
      [] e = "ERROR_TIMEOUT" -> "Request timed out"
      [] e = "ERROR_CONNECTION_CLOSED" -> "Server closed connection"

\* AsyncHTTPRequest::handleError(Error new_error, const char* detail)
handleError(m, new_error, detail) ==
    IF m.state # "ERROR"
    THEN LET call_handler == m.state = "EMPTY"
         IN  [m EXCEPT !.current_error = new_error,
                       !.state = "ERROR",
                       !.lastErrorString = <<ErrorText(new_error), detail>>,
                       !.notify_error = IF call_handler THEN TRUE ELSE @]
    ELSE m

\* AsyncHTTPRequest::requestCompleted()
requestCompleted(m) ==
    [m EXCEPT !.state = "COMPLETE", !.notify_complete = TRUE]

\* processBodyData() as it would be if it took every byte it is given.
processBodyData_whole(m, length) == length

\* processBodyData(): the bytes it takes of the `length` it is given, no
\* more than the Content-Length still leaves room for.
processBodyData_length(m, length) ==
    IF m.haveContentLength /\ m.dataReceived + length > m.responseContentLength
    THEN m.responseContentLength - m.dataReceived
    ELSE length

\* processBodyData() as it would be if it left the reader alone.
processBodyData_noWake(m) == m

\* processBodyData(): `if (reader_task != nullptr)` the reader is notified
\* and its registration cleared.
processBodyData_wake(m) ==
    IF m.reader_task # NoTask
    THEN [m EXCEPT !.taskNotify = @ + 1, !.reader_task = NoTask]
    ELSE m

\* AsyncHTTPRequest::processBodyData(data, length)
processBodyData(m, data) ==
    LET length == processBodyData_length(m, Len(data))
        body == IF m.responseBody = NullPtr THEN NewBuffer ELSE m.responseBody[1]
        written == SubSeq(data, 1, length)
        Finish(m1) ==
            IF m1.haveContentLength /\ m1.dataReceived >= m1.responseContentLength
            THEN requestCompleted(m1)
            ELSE m1
    IN  Finish(processBodyData_wake(
                 [m EXCEPT !.responseBody = <<Buffer_write(body, written)>>,
                           !.dataReceived = @ + length,
                           !.appended = @ \o written,
                           !.notify_data = TRUE]))

\* AsyncHTTPRequest::parseStatusLine(line)
parseStatusLine(m, line) ==
    LET sp == strchr(line, SP)
    IN  IF sp = 0 THEN m
        ELSE LET at_space == Skip(line, sp - 1)
                 number == Skip(at_space, strspn(at_space, {SP}))
             IN  [m EXCEPT !.httpStatus = parseInteger(number),
                           !.state = "RECEIVING_HEADERS"]

S_ContentLength == <<"C", "o", "n", "t", "e", "n", "t", "-", "L", "e", "n", "g", "t", "h">>
S_ContentType == <<"C", "o", "n", "t", "e", "n", "t", "-", "T", "y", "p", "e">>
S_TransferEncoding == <<"T", "r", "a", "n", "s", "f", "e", "r", "-", "E", "n", "c", "o", "d", "i", "n", "g">>
S_chunked == <<"c", "h", "u", "n", "k", "e", "d">>

\* The loop at the end of headers in parseHeader: what the buffer still holds
\* goes to processBodyData, one fragment-sized read at a time.
RECURSIVE parseHeader_body(_)
parseHeader_body(m) ==
    LET Feed(r) ==
            IF Len(r.data) > 0
            THEN parseHeader_body(processBodyData([m EXCEPT !.buffer = r.buf], r.data))
            ELSE [m EXCEPT !.buffer = r.buf]
    IN  Feed(Buffer_read(m.buffer, HTTP_BUFFER_FRAGMENT_SIZE))

\* AsyncHTTPRequest::parseHeader(line).  The handler of onBeginResponse is
\* called from here, inside the handler that holds the lock.
parseHeader(m, line) ==
    IF line = <<>>
    THEN parseHeader_body(
            [m EXCEPT !.state = "RECEIVING_BODY",
                      !.calls = IF m.beginResponseHandler
                                THEN Append(@, "beginResponse") ELSE @,
                      !.callsLocked = IF m.beginResponseHandler /\ m.mutex
                                      THEN @ + 1 ELSE @])
    ELSE
      LET Value(after) == Skip(after, strspn(after, {SP, TAB}))
          Field(name, value) ==
              IF strcaseeq(name, S_ContentLength)
              THEN [m EXCEPT !.responseContentLength = parseInteger(value),
                             !.haveContentLength = TRUE]
              ELSE IF strcaseeq(name, S_ContentType)
              THEN [m EXCEPT !.response_content_type = value]
              ELSE IF strcaseeq(name, S_TransferEncoding) /\ strcaseeq(value, S_chunked)
              THEN [m EXCEPT !.chunkedResponse = TRUE, !.inChunkSize = TRUE,
                             !.chunkSize = 0]
              ELSE m
          Split(colon) ==
              IF colon = 0 THEN m
              ELSE Field(SubSeq(line, 1, colon - 1), Value(Skip(line, colon)))
      IN  Split(strchr(line, ":"))

\* The while loop of sendData(Buffer*): r is [buf, to_send, tx, result, done].
\* tx is the transport: space is what client->space() returns, room what
\* client->add() still accepts, sent the bytes it has accepted.
RECURSIVE sendData_loop(_)
sendData_loop(r) ==
    LET Add(g, length) ==
            IF g.length = 0 THEN [r EXCEPT !.result = TRUE]
            ELSE IF length = 0 THEN [r EXCEPT !.result = FALSE]
            ELSE sendData_loop(
                   [r EXCEPT !.buf = Buffer_consume(r.buf, length),
                             !.to_send = @ - length,
                             !.tx = [space |-> r.tx.space - length,
                                     room |-> r.tx.room - length,
                                     sent |-> r.tx.sent \o SubSeq(g.data, 1, length)]])
        Get(g) == Add(g, Min(g.length, r.tx.room))
    IN  IF r.to_send > 0
        THEN Get(Buffer_get(r.buf, r.to_send))
        ELSE [r EXCEPT !.result = FALSE]

\* bool AsyncHTTPRequest::sendData(Buffer* buffer): [buf, tx, result]
sendData_buffer(buf, tx) ==
    sendData_loop([buf |-> buf, to_send |-> tx.space, tx |-> tx, result |-> FALSE])

\* void AsyncHTTPRequest::sendData()
sendData(m) ==
    LET Request(r1) ==
            [m EXCEPT !.buffer = r1.buf, !.tx = r1.tx,
                      !.state = IF r1.result
                                THEN (IF m.requestBody # NullPtr
                                      THEN "SENDING_BODY"
                                      ELSE "RECEIVING_STATUS_LINE")
                                ELSE @]
        Body(m1, r2) ==
            [m1 EXCEPT !.requestBody = <<r2.buf>>, !.tx = r2.tx,
                       !.state = IF r2.result THEN "RECEIVING_STATUS_LINE" ELSE @]
        Second(m1) ==
            IF m1.state = "SENDING_BODY"
            THEN Body(m1, sendData_buffer(m1.requestBody[1], m1.tx))
            ELSE m1
    IN  Second(IF m.state = "SENDING_REQUEST"
               THEN Request(sendData_buffer(m.buffer, m.tx))
               ELSE m)

\* The loop of handleData over the lines the buffer holds.  m.ub is set when
\* readline dereferenced a null fragment.
RECURSIVE handleData_lines(_)
handleData_lines(m) ==
    LET Line(r) ==
            IF r.ub THEN [m EXCEPT !.ub = TRUE]
            ELSE IF ~r.found THEN m
            ELSE handleData_lines(
                   IF m.state = "RECEIVING_STATUS_LINE"
                   THEN parseStatusLine([m EXCEPT !.buffer = r.buf], r.line)
                   ELSE parseHeader([m EXCEPT !.buffer = r.buf], r.line))
    IN  IF m.state \in {"RECEIVING_STATUS_LINE", "RECEIVING_HEADERS"}
        THEN Line(Buffer_readline(m.buffer, HTTP_MAX_LINE_LENGTH))
        ELSE m

\* The locked part of AsyncHTTPRequest::handleData(data, length).  m.returned
\* is set when the handler returns from inside the switch, before it reaches
\* lock.unlock() and post_notifications().
handleData(m, data) ==
    IF m.state \in {"RECEIVING_STATUS_LINE", "RECEIVING_HEADERS"}
    THEN [handleData_lines([m EXCEPT !.buffer = Buffer_write(@, data)])
            EXCEPT !.returned = TRUE]
    ELSE IF m.state = "RECEIVING_BODY"
    THEN processBodyData(m, data)
    ELSE m

\* The locked part of AsyncHTTPRequest::handleConnect()
handleConnect(m) == sendData([m EXCEPT !.state = "SENDING_REQUEST"])

\* The locked part of AsyncHTTPRequest::handleAck(len, time)
handleAck(m) ==
    sendData(IF m.state = "CONNECTING" THEN [m EXCEPT !.state = "SENDING_REQUEST"] ELSE m)

\* handleDisconnect() as it would be if a disconnect in RECEIVING_BODY always
\* completed the request.
handleDisconnect_completes(m) ==
    [(IF m.state = "RECEIVING_BODY"
      THEN requestCompleted(m)
      ELSE IF m.state \in {"CONNECTING", "SENDING_REQUEST", "SENDING_BODY",
                           "RECEIVING_STATUS_LINE", "RECEIVING_HEADERS"}
      THEN handleError(m, "ERROR_CONNECTION_CLOSED", NoDetail)
      ELSE m)
     EXCEPT !.client = FALSE, !.deletes = @ + 1]

\* The locked part of AsyncHTTPRequest::handleDisconnect()
handleDisconnect(m) ==
    [(IF m.state = "RECEIVING_BODY" /\ ~m.chunkedResponse /\ ~m.haveContentLength
      THEN requestCompleted(m)
      ELSE IF m.state \in {"RECEIVING_BODY", "CONNECTING", "SENDING_REQUEST",
                           "SENDING_BODY", "RECEIVING_STATUS_LINE", "RECEIVING_HEADERS"}
      THEN handleError(m, "ERROR_CONNECTION_CLOSED", NoDetail)
      ELSE m)
     EXCEPT !.client = FALSE, !.deletes = @ + 1]

S_errorToString == <<"errorToString">>

\* The locked part of AsyncHTTPRequest::handleError(int error_code)
handleTransportError(m) ==
    [(IF m.state = "CONNECTING"
      THEN handleError(m, "ERROR_CANNOT_CONNECT", <<S_errorToString>>)
      ELSE handleError(m, "ERROR_CONNECTION_CLOSED", <<S_errorToString>>))
     EXCEPT !.client = FALSE, !.deletes = @ + 1]

\* The locked part of AsyncHTTPRequest::handleTimeout(timeout)
handleTimeout(m) ==
    [handleError(m, "ERROR_TIMEOUT", NoDetail) EXCEPT !.client = FALSE, !.deletes = @ + 1]

S_requestLineEnd == <<" ", "H", "T", "T", "P", "/", "1", ".", "1", "\r", "\n", "H", "o", "s", "t", ":", " ">>
S_crlf == <<"\r", "\n">>
S_ContentTypeColon == <<"C", "o", "n", "t", "e", "n", "t", "-", "T", "y", "p", "e", ":", " ">>
S_ContentLengthColon == <<"C", "o", "n", "t", "e", "n", "t", "-", "L", "e", "n", "g", "t", "h", ":", " ">>
S_cantCreateMutex == <<"c", "a", "n", "'", "t", " ", "c", "r", "e", "a", "t", "e", " ", "m", "u", "t", "e", "x">>

\* The request line and the headers send() prints into `buffer`.
send_serialize(method, url, content_type, body) ==
    method \o <<SP>> \o url.path \o S_requestLineEnd \o url.host \o S_crlf
    \o (IF body # NullPtr
        THEN (IF content_type # NoDetail
              THEN S_ContentTypeColon \o content_type[1] \o S_crlf ELSE <<>>)
             \o S_ContentLengthColon \o StringOf(available(body[1])) \o S_crlf
        ELSE <<>>)
    \o S_crlf

\* The value send() returns after handleError(): error().
send_failed(m) == [m EXCEPT !.ret = m.current_error]

\* send() after a failed connect() as it would be if it kept the request it
\* had printed into the buffer.
send_connectFailed_keepsBuffer(m) ==
    [send_failed(handleError(m, "ERROR_CANNOT_CONNECT", NoDetail))
       EXCEPT !.requestBody = NullPtr,
              !.client = FALSE,
              !.deletes = @ + 1]

\* send() after client->connect() returned false: the error, then the
\* buffer is cleared, the body dropped and the client deleted.
send_connectFailed(m) ==
    [send_failed(handleError(m, "ERROR_CANNOT_CONNECT", NoDetail))
       EXCEPT !.buffer = Buffer_clear(@),
              !.requestBody = NullPtr,
              !.client = FALSE,
              !.deletes = @ + 1]

\* send() as it would be if it took every request for the first.
send_inUse_never(m) == FALSE

\* send(): `if (state != EMPTY)`, the request has been started before.
send_inUse(m) == m.state # "EMPTY"

\* AsyncHTTPRequest::send(method, url_string, content_type, body).  mutex_ok
\* is whether xSemaphoreCreateMutex() gives a mutex, connect_ok what
\* client->connect() returns.  m.ret is the value send() returns.
send(m, rq, mutex_ok, connect_ok) ==
    LET Connect(m1) ==
            IF ~connect_ok
            THEN send_connectFailed(m1)
            ELSE [m1 EXCEPT !.ret = "ERROR_OK"]
        Parsed(url) ==
            IF url.scheme # S_http /\ url.scheme # S_https
            THEN send_failed(handleError(m, "ERROR_SCHEME", <<url.scheme>>))
            ELSE IF ~mutex_ok
            THEN send_failed(handleError(m, "ERROR_CANNOT_CONNECT", <<S_cantCreateMutex>>))
            ELSE Connect([m EXCEPT
                            !.mutex = TRUE,
                            !.client = TRUE,
                            !.buffer = Buffer_write(@, send_serialize(rq.method, url,
                                                          rq.content_type, rq.body)),
                            !.requestBody = rq.body,
                            !.state = "CONNECTING"])
    IN  IF send_inUse(m)
        THEN send_failed(handleError(m, "ERROR_IN_USE", NoDetail))
        ELSE Parsed(URL(rq.url))

\* AsyncHTTPRequest::read(data, length): m.out is what it copies out.
read(m, length) ==
    LET Result(r) == [m EXCEPT !.responseBody = <<r.buf>>, !.out = r.data]
    IN  IF m.responseBody # NullPtr
        THEN Result(Buffer_read(m.responseBody[1], length))
        ELSE [m EXCEPT !.out = <<>>]

\* AsyncHTTPRequest::isComplete()
isComplete(m) == m.state = "ERROR" \/ m.state = "COMPLETE"

\* The task that calls Reader::readBytes (xTaskGetCurrentTaskHandle()).
ReaderTask == "reader"

\* Reader::readBytes as it would be if it gave up whenever it is short.
readBytes_breaksAlways(m) == TRUE

\* Reader::readBytes, short of bytes: `if (request->isComplete()) break;`
readBytes_breaks(m) == isComplete(m)

\* Reader::readBytes, one turn of its loop under the lock, `filled` the bytes
\* it has so far: [m, filled, waits].  It reads what the response body has;
\* if that is not enough and the request is not complete it registers its
\* task in reader_task and, the lock released, waits to be notified.
readBytes_turn(m, filled, length) ==
    LET Short(m1, filled1) ==
            IF Len(filled1) < length /\ ~readBytes_breaks(m1)
            THEN [m |-> [m1 EXCEPT !.reader_task = ReaderTask],
                  filled |-> filled1, waits |-> TRUE]
            ELSE [m |-> m1, filled |-> filled1, waits |-> FALSE]
        Got(r) == Short([m EXCEPT !.responseBody = <<r.buf>>], filled \o r.data)
    IN  IF m.responseBody # NullPtr
        THEN Got(Buffer_read(m.responseBody[1], length - Len(filled)))
        ELSE Short(m, filled)

\* AsyncHTTPRequest::contentLength()
contentLength(m) ==
    IF m.haveContentLength THEN m.responseContentLength
    ELSE IF m.state = "COMPLETE" THEN m.dataReceived
    ELSE 0

\* -------------------------------------------------------------- the state

VARIABLES
    req,      \* the AsyncHTTPRequest object: one field per data member
    aux,      \* what is observed of the object from outside: the bytes the
              \* data events delivered, the bytes ever appended to the
              \* response body, the callbacks invoked, the bytes the
              \* transport accepted, the reader's task notification
    conn,     \* the transport: "none", "connecting", "connected", "gone"
    wire,     \* the pieces of the response the server has still to deliver
    pc,       \* where each context that runs transport callbacks stands
    crashed,  \* the program was stopped by a null dereference
    last,     \* the operation that ran last, with the state it started from
    rd,       \* the task that calls Reader::readBytes: where it stands, the
              \* length it asked for, the bytes it has filled in
    bt,       \* a Buffer of its own, with the bytes written to it and taken
              \* from it since it was last cleared
    ck        \* a call of processChunkedBodyData: where it stands, its
              \* arguments and its local variables

vars == <<req, aux, conn, wire, pc, crashed, last, rd, bt, ck>>

\* The contexts transport callbacks may run on, and the one task a
\* transport that serialises its callbacks runs them on.
Contexts == {"t1", "t2"}
Tasks == {"t1"}

\* How many of the pieces the server sent one data event may carry.
MaxCoalesce == 3

\* What may follow the null dereference in Buffer::readline: the program is
\* stopped, or the load gives a byte that is no newline and the scan ends.
UBOutcomes == {"crash", "garbage"}

P_Status == <<"H", "T", "T", "P", "/", "1", ".", "1", " ", "2", "0", "0", " ", "O", "K", "\r", "\n">>
P_ContentLength11 == <<"C", "o", "n", "t", "e", "n", "t", "-", "L", "e", "n", "g", "t", "h", ":", " ", "1", "1", "\r", "\n">>
P_Chunked == <<"T", "r", "a", "n", "s", "f", "e", "r", "-", "E", "n", "c", "o", "d", "i", "n", "g", ":", " ", "c", "h", "u", "n", "k", "e", "d", "\r", "\n">>
P_Blank == <<"\r", "\n">>
P_Hello == <<"H", "e", "l", "l", "o", " ">>
P_World == <<"W", "o", "r", "l", "d", "!">>
P_Chunk1 == <<"5", "\r", "\n", "H", "e", "l", "l", "o", "\r", "\n">>
P_Chunk2 == <<"6", "\r", "\n", " ", "W", "o", "r", "l", "d", "!", "\r", "\n">>
P_Chunk3 == <<"0", "\r", "\n", "\r", "\n">>
P_StatusHead == <<"H", "T", "T", "P", "/", "1", ".", "1", " ", "2", "0">>
P_StatusTail == <<"0", " ", "O", "K", "\r", "\n">>
P_Hi == <<"H", "i">>

\* The responses the server may send, each cut into the pieces TCP may
\* deliver apart: length-delimited, chunked, delimited by the close of the
\* connection, and one whose status line is split.
Responses ==
    { <<P_Status, P_ContentLength11, P_Blank, P_Hello, P_World>>,
      <<P_Status, P_Chunked, P_Blank, P_Chunk1, P_Chunk2, P_Chunk3>>,
      <<P_Status, P_Blank, P_Hello, P_World>>,
      <<P_StatusHead, P_StatusTail, P_Blank, P_Hi>> }

S_GET == <<"G", "E", "T">>
S_POST == <<"P", "O", "S", "T">>
U_http == <<"h", "t", "t", "p", ":", "/", "/", "h", "/">>
U_ftp == <<"f", "t", "p", ":", "/", "/", "h", "/">>
S_hi == <<"h", "i">>
S_tp == <<"t", "/", "p">>

\* The calls of send() the user makes: <<method, url, content_type, body>>.
Requests ==
    { <<S_GET, U_http, NoDetail, NullPtr>>,
      <<S_POST, U_http, <<S_tp>>, <<Buffer_write(NewBuffer, S_hi)>> >>,
      <<S_GET, U_ftp, NoDetail, NullPtr>> }

\* The arguments of one call of send().
Arguments(call) ==
    [method |-> call[1], url |-> call[2], content_type |-> call[3], body |-> call[4]]

\* What client->space() may report and how much client->add() then takes:
\* <<space, room>>.
Windows == { <<0, 0>>, <<16, 16>>, <<1024, 20>>, <<1024, 1024>> }

\* The lengths the user passes to read().
ReadLengths == {5, 512}

RECURSIVE Flatten(_)
Flatten(pieces) == IF pieces = <<>> THEN <<>> ELSE Head(pieces) \o Flatten(Tail(pieces))

\* The fields of the object as the header initialises them, with the four
\* handlers registered.
InitReq ==
    [ completionHandler |-> TRUE, errorHandler |-> TRUE,
      receivedDataHandler |-> TRUE, beginResponseHandler |-> TRUE,
      mutex |-> FALSE, reader_task |-> NoTask,
      state |-> "EMPTY", current_error |-> "ERROR_OK",
      lastErrorString |-> <<"", NoDetail>>, client |-> FALSE,
      buffer |-> NewBuffer, requestBody |-> NullPtr,
      httpStatus |-> 0, chunkedResponse |-> FALSE, chunkSize |-> 0,
      inChunkSize |-> FALSE, responseContentLength |-> 0, dataReceived |-> 0,
      haveContentLength |-> FALSE, responseBody |-> NullPtr,
      response_content_type |-> <<>>,
      notify_data |-> FALSE, notify_complete |-> FALSE, notify_error |-> FALSE ]

InitAux ==
    [ appended |-> <<>>, bodyEvents |-> <<>>, received |-> <<>>,
      calls |-> <<>>, callsLocked |-> 0,
      queued |-> <<>>, sent |-> <<>>, taskNotify |-> 0, deletes |-> 0,
      deadUse |-> FALSE ]

\* The locals and results of one call, which the operators above fill in.
Locals(window) ==
    [ tx |-> [space |-> window[1], room |-> window[2], sent |-> aux.sent],
      window |-> window,
      ub |-> FALSE, returned |-> FALSE, ret |-> "ERROR_OK", out |-> <<>> ]

\* The object as an operator sees it during a call.
M(window) == req @@ aux @@ Locals(window)

NoWindow == <<0, 0>>

\* The object and the observations after operation op left them as m.
Store(op, m) ==
    /\ req' = [f \in DOMAIN req |-> m[f]]
    /\ aux' = [f \in DOMAIN aux |-> IF f = "sent" THEN m.tx.sent ELSE m[f]]
    /\ last' = [op |-> op, from |-> req.state, err |-> req.current_error,
                ret |-> m.ret, out |-> m.out, space |-> m.window[1],
                sent0 |-> Len(aux.sent),
                recv0 |-> req.dataReceived, body0 |-> req.responseBody]

\* An operation that is neither the reader's nor on the Buffer of its own.
Commit(op, m) == Store(op, m) /\ UNCHANGED <<rd, bt, ck>>

\* No reader has called yet.
InitReader == [pc |-> "idle", length |-> 0, filled |-> <<>>, seen |-> 0, got |-> <<>>]

\* A Buffer as its constructor leaves it, nothing written or taken.
InitBuffer ==
    [buf |-> NewBuffer, written |-> <<>>, taken |-> <<>>, ops |-> 0,
     op |-> "new", arg |-> 0, before |-> NewBuffer, out |-> <<>>, found |-> FALSE]

\* processChunkedBodyData() has not been called.
InitChunked ==
    [pc |-> "idle", data |-> <<>>, offset |-> 0, length |-> 0, i |-> 0,
     length0 |-> 0, i0 |-> 0, turns |-> 0, calls |-> 0]

Init ==
    /\ req = InitReq
    /\ aux = InitAux
    /\ conn = "none"
    /\ wire \in Responses
    /\ pc = [c \in Contexts |-> "idle"]
    /\ crashed = FALSE
    /\ last = [op |-> "init", from |-> "EMPTY", err |-> "ERROR_OK",
               ret |-> "ERROR_OK", out |-> <<>>, space |-> 0, sent0 |-> 0,
               recv0 |-> 0, body0 |-> NullPtr]
    /\ rd = InitReader
    /\ bt = InitBuffer
    /\ ck = InitChunked

\* ------------------------------------------------------ the user's calls

\* send() has a server to talk to once it got a client and connect() began.
Queued(m, rq) ==
    IF req.state = "EMPTY" /\ m.client
    THEN [m EXCEPT !.queued = Contents(m.buffer)
                      \o (IF rq.body = NullPtr THEN <<>> ELSE Contents(rq.body[1]))]
    ELSE m

Send(requests) ==
    /\ ~crashed
    /\ \E call \in requests, mutex_ok \in BOOLEAN, connect_ok \in BOOLEAN :
         \E m \in {Queued(send(M(NoWindow), Arguments(call), mutex_ok, connect_ok),
                          Arguments(call))} :
             /\ Commit("send", m)
             /\ conn' = IF req.state = "EMPTY" /\ m.client THEN "connecting" ELSE conn
    /\ UNCHANGED <<wire, pc, crashed>>

Read ==
    /\ ~crashed
    /\ \E length \in ReadLengths : Commit("read", read(M(NoWindow), length))
    /\ UNCHANGED <<conn, wire, pc, crashed>>

\* --------------------------------------------------- the blocking reader
\* rd.pc: "idle" outside readBytes, "wait" in ulTaskNotifyTake() after the
\* lock was released, "ready" when the notification has been taken and the
\* loop is about to lock again.  rd.seen is how many body bytes had arrived
\* when the reader registered, rd.got the bytes readBytes has taken so far.

\* What one turn of the loop leaves behind.
ReaderTurn(t, length) ==
    /\ Store(IF t.waits THEN "readBytes_wait" ELSE "readBytes",
             [t.m EXCEPT !.out = t.filled])
    /\ rd' = [pc |-> IF t.waits THEN "wait" ELSE "idle",
              length |-> length,
              filled |-> t.filled,
              seen |-> Len(aux.appended),
              got |-> rd.got \o SubSeq(t.filled,
                                       IF rd.pc = "idle" THEN 1 ELSE Len(rd.filled) + 1,
                                       Len(t.filled))]
    /\ UNCHANGED <<conn, wire, pc, crashed, bt, ck>>

\* readBytes(data, length) is called and runs its first turn.
ReaderCall(lengths) ==
    /\ ~crashed /\ rd.pc = "idle"
    /\ \E length \in lengths :
         ReaderTurn(readBytes_turn(M(NoWindow), <<>>, length), length)

\* ulTaskNotifyTake(pdTRUE, portMAX_DELAY) returns once the task has been
\* notified, and clears the notification.
ReaderTake ==
    /\ ~crashed /\ rd.pc = "wait" /\ aux.taskNotify > 0
    /\ aux' = [aux EXCEPT !.taskNotify = 0]
    /\ rd' = [rd EXCEPT !.pc = "ready"]
    /\ last' = [op |-> "take", from |-> req.state, err |-> req.current_error,
                ret |-> "ERROR_OK", out |-> <<>>, space |-> 0,
                sent0 |-> Len(aux.sent),
                recv0 |-> req.dataReceived, body0 |-> req.responseBody]
    /\ UNCHANGED <<req, conn, wire, pc, crashed, bt, ck>>

\* The loop locks again and runs its next turn.
ReaderResume ==
    /\ ~crashed /\ rd.pc = "ready"
    /\ ReaderTurn(readBytes_turn(M(NoWindow), rd.filled, rd.length), rd.length)

\* ------------------------------------------------ the transport's events

\* The transport calls back only while the client object exists.
Ready(c) == ~crashed /\ pc[c] = "idle" /\ req.client

\* After lock.unlock() the handler calls post_notifications().
Unlocked(c) == pc' = [pc EXCEPT ![c] = "post"]

HandleConnect(c, windows) ==
    /\ Ready(c) /\ conn = "connecting"
    /\ \E w \in windows : Commit("connect", handleConnect(M(w)))
    /\ conn' = "connected"
    /\ Unlocked(c)
    /\ UNCHANGED <<wire, crashed>>

HandleAck(c, windows) ==
    /\ Ready(c) /\ conn = "connected"
    /\ \E w \in windows : Commit("ack", handleAck(M(w)))
    /\ Unlocked(c)
    /\ UNCHANGED <<conn, wire, crashed>>

\* The data event: deliver data, note it, and note it apart when the body
\* branch took it.
Deliver(m, data) ==
    IF m.state = "RECEIVING_BODY"
    THEN [handleData(m, data) EXCEPT !.bodyEvents = Append(@, data),
                                     !.received = @ \o data]
    ELSE [handleData(m, data) EXCEPT !.received = @ \o data]

\* The server answers when it has the whole request.
HandleData(c) ==
    /\ Ready(c) /\ conn = "connected" /\ wire # <<>>
    /\ aux.sent = aux.queued
    /\ \E k \in 1..Min(MaxCoalesce, Len(wire)) :
         \E m \in {Deliver(M(NoWindow), Flatten(SubSeq(wire, 1, k)))} :
             /\ Commit("data", m)
             /\ wire' = Skip(wire, k)
             /\ crashed' \in (IF m.ub THEN {outcome = "crash" : outcome \in UBOutcomes}
                               ELSE {FALSE})
             /\ pc' = IF m.returned THEN pc ELSE [pc EXCEPT ![c] = "post"]
    /\ UNCHANGED conn

HandleDisconnect(c) ==
    /\ Ready(c) /\ conn \in {"connecting", "connected"}
    /\ Commit("disconnect", handleDisconnect(M(NoWindow)))
    /\ conn' = "gone"
    /\ Unlocked(c)
    /\ UNCHANGED <<wire, crashed>>

HandleError(c) ==
    /\ Ready(c) /\ conn \in {"connecting", "connected"}
    /\ Commit("error", handleTransportError(M(NoWindow)))
    /\ conn' = "gone"
    /\ Unlocked(c)
    /\ UNCHANGED <<wire, crashed>>

HandleTimeout(c) ==
    /\ Ready(c) /\ conn \in {"connecting", "connected"}
    /\ Commit("timeout", handleTimeout(M(NoWindow)))
    /\ conn' = "gone"
    /\ Unlocked(c)
    /\ UNCHANGED <<wire, crashed>>

\* ------------------------------------------------- post_notifications()
\* It runs after the lock is released, so each read of a flag, each callback
\* and each write of a flag is a step of its own that other contexts may
\* interleave with.  pc: "post" at its entry, "in_error", "in_data" and
\* "in_complete" while the user's callback runs, "complete" before the test
\* of notify_complete, "close" and "closing" in close_client().

Invoke(name) == aux' = [aux EXCEPT !.calls = Append(@, name)]

Step(c, to) == pc' = [pc EXCEPT ![c] = to]

Dispatching ==
    /\ last' = [op |-> "dispatch", from |-> req.state, err |-> req.current_error,
                ret |-> "ERROR_OK", out |-> <<>>, space |-> 0,
                sent0 |-> Len(aux.sent),
                recv0 |-> req.dataReceived, body0 |-> req.responseBody]
    /\ UNCHANGED <<rd, bt, ck>>

\* `if (notify_error)` and, when it is false, `if (notify_data)`.
PostStart(c) ==
    /\ ~crashed /\ pc[c] = "post"
    /\ IF req.notify_error
       THEN IF req.errorHandler
            THEN Invoke("error") /\ Step(c, "in_error") /\ UNCHANGED req
            ELSE /\ req' = [req EXCEPT !.notify_error = FALSE, !.notify_data = FALSE,
                                       !.notify_complete = FALSE]
                 /\ Step(c, "close") /\ UNCHANGED aux
       ELSE IF req.notify_data
            THEN IF req.receivedDataHandler
                 THEN Invoke("data") /\ Step(c, "in_data") /\ UNCHANGED req
                 ELSE /\ req' = [req EXCEPT !.notify_data = FALSE]
                      /\ Step(c, "complete") /\ UNCHANGED aux
            ELSE Step(c, "complete") /\ UNCHANGED <<req, aux>>
    /\ Dispatching
    /\ UNCHANGED <<conn, wire, crashed>>

\* The callback returns and the flags it stood for are cleared.
CallbackReturn(c) ==
    /\ ~crashed /\ pc[c] \in {"in_error", "in_data", "in_complete"}
    /\ req' = IF pc[c] = "in_error"
              THEN [req EXCEPT !.notify_error = FALSE, !.notify_data = FALSE,
                               !.notify_complete = FALSE]
              ELSE IF pc[c] = "in_data"
              THEN [req EXCEPT !.notify_data = FALSE]
              ELSE [req EXCEPT !.notify_complete = FALSE]
    /\ Step(c, IF pc[c] = "in_data" THEN "complete" ELSE "close")
    /\ Dispatching
    /\ UNCHANGED <<aux, conn, wire, crashed>>

\* `if (notify_complete)`
PostComplete(c) ==
    /\ ~crashed /\ pc[c] = "complete"
    /\ IF req.notify_complete
       THEN IF req.completionHandler
            THEN Invoke("complete") /\ Step(c, "in_complete") /\ UNCHANGED req
            ELSE /\ req' = [req EXCEPT !.notify_complete = FALSE]
                 /\ Step(c, "close") /\ UNCHANGED aux
       ELSE Step(c, "idle") /\ UNCHANGED <<req, aux>>
    /\ Dispatching
    /\ UNCHANGED <<conn, wire, crashed>>

\* close_client(): `if (client != nullptr)`
CloseClient(c) ==
    /\ ~crashed /\ pc[c] = "close"
    /\ Step(c, IF req.client THEN "closing" ELSE "idle")
    /\ Dispatching
    /\ UNCHANGED <<req, aux, conn, wire, crashed>>

\* close_client(): client->close(); delete client; client = nullptr.  When a
\* handler on another context deleted the client since the test, this uses
\* and deletes a dead object: the program may be stopped there or go on.
CloseClientDelete(c) ==
    /\ ~crashed /\ pc[c] = "closing"
    /\ req' = [req EXCEPT !.client = FALSE]
    /\ aux' = [aux EXCEPT !.deletes = @ + 1,
                          !.deadUse = @ \/ ~req.client]
    /\ crashed' \in (IF req.client THEN {FALSE} ELSE {FALSE, TRUE})
    /\ conn' = "gone"
    /\ Step(c, "idle")
    /\ Dispatching
    /\ UNCHANGED wire

\* Every call and event, the transport's callbacks on one task.
Next ==
    \/ Send(Requests)
    \/ Read
    \/ \E c \in Tasks : HandleConnect(c, Windows)
    \/ \E c \in Tasks : HandleAck(c, Windows)
    \/ \E c \in Tasks : HandleData(c)
    \/ \E c \in Tasks : HandleDisconnect(c)
    \/ \E c \in Tasks : HandleError(c)
    \/ \E c \in Tasks : HandleTimeout(c)
    \/ \E c \in Tasks : PostStart(c)
    \/ \E c \in Tasks : CallbackReturn(c)
    \/ \E c \in Tasks : PostComplete(c)
    \/ \E c \in Tasks : CloseClient(c)
    \/ \E c \in Tasks : CloseClientDelete(c)

Spec == Init /\ [][Next]_vars

\* The same object when transport callbacks may run on two contexts at once:
\* one GET, answered by the length-delimited response, nothing read.
InitConcurrent ==
    Init /\ wire = <<P_Status, P_ContentLength11, P_Blank, P_Hello, P_World>>

NextConcurrent ==
    \/ Send({call \in Requests : call[1] = S_GET /\ call[2] = U_http})
    \/ \E c \in Contexts : HandleConnect(c, {w \in Windows : w[2] >= 16})
    \/ \E c \in Contexts : HandleAck(c, {w \in Windows : w[2] >= 16})
    \/ \E c \in Contexts : HandleData(c)
    \/ \E c \in Contexts : HandleDisconnect(c)
    \/ \E c \in Contexts : HandleError(c)
    \/ \E c \in Contexts : HandleTimeout(c)
    \/ \E c \in Contexts : PostStart(c)
    \/ \E c \in Contexts : CallbackReturn(c)
    \/ \E c \in Contexts : PostComplete(c)
    \/ \E c \in Contexts : CloseClient(c)
    \/ \E c \in Contexts : CloseClientDelete(c)

SpecConcurrent == InitConcurrent /\ [][NextConcurrent]_vars

\* The object with a task that reads the body through Reader::readBytes:
\* one GET, answered by the length-delimited response or by the one that the
\* close of the connection ends, the transport's callbacks on one task.
ReaderLengths == {4, 20}

InitWithReader ==
    /\ Init
    /\ wire \in { <<P_Status, P_ContentLength11, P_Blank, P_Hello, P_World>>,
                   <<P_Status, P_Blank, P_Hello, P_World>> }

NextWithReader ==
    \/ Send({call \in Requests : call[1] = S_GET /\ call[2] = U_http})
    \/ ReaderCall(ReaderLengths)
    \/ ReaderTake
    \/ ReaderResume
    \/ \E c \in Tasks : HandleConnect(c, {w \in Windows : w[2] >= 16})
    \/ \E c \in Tasks : HandleAck(c, {w \in Windows : w[2] >= 16})
    \/ \E c \in Tasks : HandleData(c)
    \/ \E c \in Tasks : HandleDisconnect(c)
    \/ \E c \in Tasks : HandleError(c)
    \/ \E c \in Tasks : HandleTimeout(c)
    \/ \E c \in Tasks : PostStart(c)
    \/ \E c \in Tasks : CallbackReturn(c)
    \/ \E c \in Tasks : PostComplete(c)
    \/ \E c \in Tasks : CloseClient(c)
    \/ \E c \in Tasks : CloseClientDelete(c)

SpecWithReader == InitWithReader /\ [][NextWithReader]_vars

\* The sending of the request on its own: every call of send(), then connect
\* and ack events with windows that also end exactly where a buffer ends.
SendWindows == Windows \cup { <<2, 2>>, <<11, 11>> }

InitSending ==
    Init /\ wire = <<P_Status, P_ContentLength11, P_Blank, P_Hello, P_World>>

NextSending ==
    \/ Send(Requests)
    \/ \E c \in Tasks : HandleConnect(c, SendWindows)
    \/ \E c \in Tasks : HandleAck(c, SendWindows)
    \/ \E c \in Tasks : PostStart(c)
    \/ \E c \in Tasks : PostComplete(c)

SpecSending == InitSending /\ [][NextSending]_vars

\* ------------------------------------------------- the Buffer on its own
\* A Buffer driven directly through its public operations.  bt.written and
\* bt.taken are the bytes written and the bytes consumed since the last
\* clear(); bt.before is the buffer the last operation started from, bt.out
\* what it handed back.

MaxBufferOps == 4

Letters == <<"a", "b", "c", "d", "e", "f", "g">>

Pattern(n, k) == [i \in 1..n |-> Letters[((i + k) % Len(Letters)) + 1]]

\* Three fragments and seventeen bytes, one whole fragment, and two short
\* lines followed by the start of a third.
BlockLong == Pattern(HTTP_BUFFER_FRAGMENT_SIZE * 3 + 17, 0)
BlockFragment == Pattern(HTTP_BUFFER_FRAGMENT_SIZE, 3)
BlockLines == <<"h", "i", CR, LF, "j", "k", LF, "l">>

WriteBlocks == {BlockLong, BlockFragment, BlockLines}
ReadSizes == {3, HTTP_BUFFER_FRAGMENT_SIZE, Len(BlockLong)}
ConsumeSizes == {600}
GetSizes == {600}
LineLengths == {HTTP_MAX_LINE_LENGTH}

\* What a call of readline() can do.  When it dereferences the null
\* fragment the build either faults, or it reads whatever lies at address
\* zero: no '\n' there and it returns no line, a '\n' there and it takes
\* the line to end beyond the buffered bytes.
Buffer_readline_outcomes(b, length) ==
    LET Defined(r) ==
            [found |-> r.found, line |-> r.line, buf |-> r.buf, crash |-> FALSE]
        Beyond(g) ==
            [found |-> TRUE, line |-> g.data, buf |-> g.buf, crash |-> FALSE]
        Outcomes(r) ==
            IF ~r.ub THEN {Defined(r)}
            ELSE { [Defined(r) EXCEPT !.crash = outcome = "crash"] :
                       outcome \in UBOutcomes }
                 \cup {Beyond(Buffer_read(b, Min(length, available(b))))}
    IN  Outcomes(Buffer_readline(b, length))

InitBuffers ==
    /\ req = InitReq
    /\ aux = InitAux
    /\ conn = "none"
    /\ wire = <<>>
    /\ pc = [c \in Contexts |-> "idle"]
    /\ crashed = FALSE
    /\ last = [op |-> "init", from |-> "EMPTY", err |-> "ERROR_OK",
               ret |-> "ERROR_OK", out |-> <<>>, space |-> 0, sent0 |-> 0,
               recv0 |-> 0, body0 |-> NullPtr]
    /\ rd = InitReader
    /\ bt = InitBuffer
    /\ ck = InitChunked

BufferOp(op, arg, buf, written, taken, out, found) ==
    /\ ~crashed /\ bt.ops < MaxBufferOps
    /\ bt' = [buf |-> buf, written |-> written, taken |-> taken,
              ops |-> bt.ops + 1, op |-> op, arg |-> arg, before |-> bt.buf,
              out |-> out, found |-> found]
    /\ UNCHANGED <<req, aux, conn, wire, pc, last, rd, ck>>

BufferWrite(blocks) ==
    \E data \in blocks :
        /\ BufferOp("write", Len(data), Buffer_write(bt.buf, data),
                    bt.written \o data, bt.taken, <<>>, FALSE)
        /\ crashed' = FALSE

BufferRead(sizes) ==
    \E length \in sizes : \E r \in {Buffer_read(bt.buf, length)} :
        /\ BufferOp("read", length, r.buf, bt.written, bt.taken \o r.data,
                    r.data, FALSE)
        /\ crashed' = FALSE

\* consume(length) is read(nullptr, length): the bytes go nowhere.
BufferConsume(sizes) ==
    \E length \in sizes : \E r \in {Buffer_read(bt.buf, length)} :
        /\ BufferOp("consume", length, Buffer_consume(bt.buf, length),
                    bt.written, bt.taken \o r.data, <<>>, FALSE)
        /\ crashed' = FALSE

BufferReadline(lengths) ==
    \E length \in lengths : \E r \in Buffer_readline_outcomes(bt.buf, length) :
        /\ BufferOp("readline", length, r.buf, bt.written,
                    bt.taken \o Buffer_read(bt.buf, available(bt.buf) - available(r.buf)).data,
                    r.line, r.found)
        /\ crashed' = r.crash

\* get(&length) hands out bytes of the first fragment and takes none.
BufferGet(sizes) ==
    \E length \in sizes :
        /\ BufferOp("get", length, bt.buf, bt.written, bt.taken,
                    Buffer_get(bt.buf, length).data, FALSE)
        /\ crashed' = FALSE

BufferClear ==
    /\ BufferOp("clear", 0, Buffer_clear(bt.buf), <<>>, <<>>, <<>>, FALSE)
    /\ crashed' = FALSE

NextBuffers ==
    \/ BufferWrite(WriteBlocks)
    \/ BufferRead(ReadSizes)
    \/ BufferConsume(ConsumeSizes)
    \/ BufferReadline(LineLengths)
    \/ BufferGet(GetSizes)
    \/ BufferClear

SpecBuffers == InitBuffers /\ [][NextBuffers]_vars

\* ------------------------------------------- the receiving of a response
\* One GET, sent in one drain, and responses that put the parser to the
\* test: a body longer than its Content-Length with more bytes after it, a
\* Content-Length of zero, a status line cut in two, lines that are no
\* status line and no header, and a body of more than a fragment that
\* comes together with the headers.
P_ContentLength0 == <<"C", "o", "n", "t", "e", "n", "t", "-", "L", "e", "n", "g", "t", "h", ":", " ", "0", "\r", "\n">>
P_NoSpace == <<"H", "T", "T", "P", "\r", "\n">>
P_NoColon == <<"X", "-", "B", "a", "d", "\r", "\n">>
P_HelloWorld == P_Hello \o P_World
P_Body600 == Pattern(600, 1)

ReceivingResponses ==
    { <<P_Status, P_ContentLength11, P_Blank, P_HelloWorld, P_Hi>>,
      <<P_Status, P_ContentLength0, P_Blank>>,
      <<P_StatusHead, P_StatusTail, P_Blank, P_Hi>>,
      <<P_NoSpace, P_Status, P_NoColon, P_Blank, P_Hi>>,
      <<P_Status, P_Blank, P_Body600>> }

InitReceiving ==
    /\ req = InitReq
    /\ aux = InitAux
    /\ conn = "none"
    /\ wire \in ReceivingResponses
    /\ pc = [c \in Contexts |-> "idle"]
    /\ crashed = FALSE
    /\ last = [op |-> "init", from |-> "EMPTY", err |-> "ERROR_OK",
               ret |-> "ERROR_OK", out |-> <<>>, space |-> 0, sent0 |-> 0,
               recv0 |-> 0, body0 |-> NullPtr]
    /\ rd = InitReader
    /\ bt = InitBuffer
    /\ ck = InitChunked

NextReceiving ==
    \/ Send({call \in Requests : call[1] = S_GET /\ call[2] = U_http})
    \/ \E c \in Tasks : HandleConnect(c, {w \in Windows : w[2] >= 1024})
    \/ \E c \in Tasks : HandleAck(c, {w \in Windows : w[2] >= 1024})
    \/ \E c \in Tasks : HandleData(c)
    \/ \E c \in Tasks : HandleDisconnect(c)
    \/ \E c \in Tasks : PostStart(c)
    \/ \E c \in Tasks : CallbackReturn(c)
    \/ \E c \in Tasks : PostComplete(c)
    \/ \E c \in Tasks : CloseClient(c)
    \/ \E c \in Tasks : CloseClientDelete(c)

SpecReceiving == InitReceiving /\ [][NextReceiving]_vars

\* The request as the first data event finds it, and what handleData()
\* makes of the bytes received so far when they come in one data event.
Unsplit(received) ==
    handleData([InitReq @@ InitAux @@ Locals(NoWindow)
                  EXCEPT !.state = "RECEIVING_STATUS_LINE",
                         !.mutex = TRUE, !.client = TRUE],
               received)

\* ------------------------------------------- processChunkedBodyData()
\* Nothing in the source calls processChunkedBodyData(); here it is called
\* as handleData() would call it for the body of a chunked response, on the
\* request as the headers of such a response leave it.  ck.data and
\* ck.offset are the pointer `data`: the bytes of the call and how far the
\* pointer has been moved into them; ck.length and ck.i are `length` and
\* `i`.  ck.length0 is `length` as the present turn of the outer loop found
\* it, ck.i0 is `i` as the turn of the inner loop before this one found it.
\* chunkSize is a size_t; within MaxChunkTurns turns it stays far from its
\* range.
MaxChunkTurns == 4
MaxChunkCalls == 3

\* The bytes of a call: a first chunk as servers send it, a chunk size line
\* that ends in a bare newline with a chunk of five bytes and one byte more,
\* the same with less than its chunk, a size line cut before its newline,
\* the last chunk's size line, and bytes that are no size line.
ChunkInputs ==
    { P_Chunk1,
      <<"5", "\n">> \o P_Hello,
      <<"5", "\n", "H", "e">>,
      <<"5">>,
      <<"0", "\n">>,
      P_Hi }

\* data[k]
ChunkByte(k) == ck.data[ck.offset + k + 1]

InitChunkedBody ==
    /\ aux = InitAux
    /\ req = [f \in DOMAIN InitReq |->
                  Unsplit(Flatten(<<P_Status, P_Chunked, P_Blank>>))[f]]
    /\ conn = "connected"
    /\ wire = <<>>
    /\ pc = [c \in Contexts |-> "idle"]
    /\ crashed = FALSE
    /\ last = [op |-> "init", from |-> "EMPTY", err |-> "ERROR_OK",
               ret |-> "ERROR_OK", out |-> <<>>, space |-> 0, sent0 |-> 0,
               recv0 |-> 0, body0 |-> NullPtr]
    /\ rd = InitReader
    /\ bt = InitBuffer
    /\ ck = InitChunked

\* A step of processChunkedBodyData() that leaves the object as m.
ChunkStep(m) ==
    /\ Store("processChunkedBodyData", m)
    /\ UNCHANGED <<conn, wire, pc, crashed, rd, bt>>

\* processChunkedBodyData(data, length) is called.
ProcessChunkedBodyData(inputs) ==
    /\ ck.pc \in {"idle", "done"} /\ ck.calls < MaxChunkCalls
    /\ req.state = "RECEIVING_BODY" /\ req.chunkedResponse
    /\ \E data \in inputs :
         ck' = [pc |-> "outer", data |-> data, offset |-> 0, length |-> Len(data),
                i |-> 0, length0 |-> Len(data), i0 |-> 0, turns |-> 0,
                calls |-> ck.calls + 1]
    /\ ChunkStep(M(NoWindow))

\* `while (length > 0)` and what follows it up to the inner loop: the
\* digits of the chunk size, or the bytes of the chunk.
ChunkOuter ==
    /\ ck.pc = "outer" /\ ck.turns < MaxChunkTurns
    /\ LET rest == SubSeq(ck.data, ck.offset + 1, ck.offset + ck.length)
           data_length == Min(ck.length, req.chunkSize)
           Chunk(m) ==
               [m EXCEPT !.chunkSize = req.chunkSize - data_length,
                         !.inChunkSize = req.chunkSize - data_length = 0]
       IN  IF ck.length = 0
           THEN /\ ck' = [ck EXCEPT !.pc = "done"]
                /\ ChunkStep(M(NoWindow))
           ELSE IF req.inChunkSize
           THEN /\ ck' = [ck EXCEPT !.pc = "inner", !.length0 = ck.length,
                                    !.i = strspn(rest, Digits), !.i0 = -1]
                /\ ChunkStep([M(NoWindow) EXCEPT
                                 !.chunkSize = parseIntegerFrom(rest, @)])
           ELSE /\ ck' = [ck EXCEPT !.offset = @ + data_length,
                                    !.length = @ - data_length,
                                    !.length0 = ck.length,
                                    !.turns = @ + 1]
                /\ ChunkStep(Chunk(processBodyData(M(NoWindow),
                                                   SubSeq(rest, 1, data_length))))

\* `while (i < length)`: one turn of the loop over what follows the digits.
ChunkInner ==
    /\ ck.pc = "inner"
    /\ IF ck.i >= ck.length
       THEN /\ ck' = [ck EXCEPT !.pc = "outer", !.turns = @ + 1]
            /\ ChunkStep(M(NoWindow))
       ELSE IF ChunkByte(ck.i) = CR
       THEN /\ ck' = [ck EXCEPT !.i0 = ck.i]
            /\ ChunkStep(M(NoWindow))
       ELSE IF ChunkByte(ck.i) = LF
       THEN IF req.chunkSize = 0
            THEN /\ ck' = [ck EXCEPT !.pc = "done"]
                 /\ ChunkStep(requestCompleted([M(NoWindow) EXCEPT
                                                   !.inChunkSize = FALSE]))
            ELSE /\ ck' = [ck EXCEPT !.offset = @ + ck.i, !.length = @ - ck.i,
                                     !.i = @ + 1, !.i0 = ck.i]
                 /\ ChunkStep([M(NoWindow) EXCEPT !.inChunkSize = FALSE])
       ELSE /\ ck' = [ck EXCEPT !.i = @ + 1, !.i0 = ck.i]
            /\ ChunkStep(M(NoWindow))

NextChunkedBody ==
    \/ ProcessChunkedBodyData(ChunkInputs)
    \/ ChunkOuter
    \/ ChunkInner

SpecChunkedBody == InitChunkedBody /\ [][NextChunkedBody]_vars

\* ------------------------------------------------------------ the claims
\* `last` names the operation that ran last, the state and the recorded
\* error it started from, what it returned, the space the transport reported
\* to it and how many bytes the transport had accepted before it.

Events == {"connect", "ack", "data", "disconnect", "error", "timeout"}

\* How often the user's callback `name` has been invoked.
Count(name) == Cardinality({i \in 1..Len(aux.calls) : aux.calls[i] = name})

\* Nothing is left to run: no client that could call back, no dispatch
\* under way.
Quiescent == ~crashed /\ ~req.client /\ \A c \in Contexts : pc[c] = "idle"

\* The bytes still in the response body are the last of those appended.
BodyReadable ==
    IF req.responseBody = NullPtr THEN aux.appended = <<>>
    ELSE \E n \in 0..Len(aux.appended) :
            Contents(req.responseBody[1]) = Skip(aux.appended, n)

S_HelloWorld == <<"H", "e", "l", "l", "o", " ", "W", "o", "r", "l", "d">>

\* C1: a send() on a request that is not EMPTY returns ERROR_IN_USE and
\* leaves the state and the recorded error as they were before the call.
C1_SendInUseTouchesNothing ==
    (last.op = "send" /\ last.from # "EMPTY") =>
        /\ last.ret = "ERROR_IN_USE"
        /\ req.state = last.from
        /\ req.current_error = last.err

\* C2: ERROR is absorbing: an operation or event that starts in ERROR leaves
\* the state ERROR and the recorded error the one it was.
C2_ErrorAbsorbing ==
    (last.from = "ERROR" /\ last.op \in Events \cup {"send"}) =>
        /\ req.state = "ERROR"
        /\ req.current_error = last.err

\* C3: COMPLETE is terminal: an event or a send() that starts in COMPLETE
\* leaves the state COMPLETE and error() equal to ERROR_OK.
C3_CompleteImmutable ==
    (last.from = "COMPLETE" /\ last.op \in Events \cup {"send"}) =>
        /\ req.state = "COMPLETE"
        /\ req.current_error = "ERROR_OK"

\* C4: when the last chunk of the chunked response "Hello", " World!" and the
\* zero-size chunk have been received in the body, the state is COMPLETE and
\* the body is the chunk payloads only, "Hello World!".
C4_ChunkedDecoded ==
    (req.chunkedResponse /\ wire = <<>> /\ last.op = "data"
       /\ last.from = "RECEIVING_BODY") =>
        /\ req.state = "COMPLETE"
        /\ aux.appended = P_Hello \o P_World

\* C5 as the specification states it: with Content-Length: 11 and the body
\* delivered as "Hello " then "World!", the state is not COMPLETE after the
\* first data event, is COMPLETE after the second, contentLength() is 11 and
\* the accumulated body is exactly "Hello World!".
C5_BodyIsWholeInput ==
    (req.haveContentLength /\ req.responseContentLength = 11 /\ last.op = "data") =>
        /\ aux.bodyEvents = <<P_Hello>> =>
               req.state # "COMPLETE" /\ contentLength(req) = 11
        /\ aux.bodyEvents = <<P_Hello, P_World>> =>
               /\ req.state = "COMPLETE"
               /\ contentLength(req) = 11
               /\ aux.appended = P_Hello \o P_World

\* C5: with Content-Length: 11 and the body delivered as "Hello " then
\* "World!", the state is not COMPLETE after the first data event, is COMPLETE
\* after the second, contentLength() is 11 and the accumulated body is the
\* first 11 bytes, "Hello World".
C5_BodyIsFirstEleven ==
    (req.haveContentLength /\ req.responseContentLength = 11 /\ last.op = "data") =>
        /\ aux.bodyEvents = <<P_Hello>> =>
               req.state # "COMPLETE" /\ contentLength(req) = 11
        /\ aux.bodyEvents = <<P_Hello, P_World>> =>
               /\ req.state = "COMPLETE"
               /\ contentLength(req) = 11
               /\ aux.appended = S_HelloWorld

\* The second of the two body events has been taken and completed the request.
C5_SecondEventTaken ==
    /\ req.haveContentLength /\ req.responseContentLength = 11
    /\ last.op = "data" /\ last.from = "RECEIVING_BODY"
    /\ aux.bodyEvents = <<P_Hello, P_World>>
    /\ req.state = "COMPLETE" /\ aux.appended = S_HelloWorld

\* C6: a disconnect in RECEIVING_BODY with no Content-Length and no chunked
\* encoding gives COMPLETE with error() = ERROR_OK, and the body bytes
\* received stay readable.
C6_CloseDelimitedCompletes ==
    (last.op = "disconnect" /\ last.from = "RECEIVING_BODY"
       /\ ~req.haveContentLength /\ ~req.chunkedResponse) =>
        /\ req.state = "COMPLETE"
        /\ req.current_error = "ERROR_OK"
        /\ BodyReadable

\* C7: a disconnect in CONNECTING, SENDING_REQUEST, SENDING_BODY,
\* RECEIVING_STATUS_LINE, RECEIVING_HEADERS, or in RECEIVING_BODY with a
\* Content-Length or chunked encoding, sets error() to
\* ERROR_CONNECTION_CLOSED and makes isComplete() true; a disconnect in
\* EMPTY, ERROR or COMPLETE changes neither the state nor the error.
C7_DisconnectOutcome ==
    last.op = "disconnect" =>
        /\ (\/ last.from \in {"CONNECTING", "SENDING_REQUEST", "SENDING_BODY",
                               "RECEIVING_STATUS_LINE", "RECEIVING_HEADERS"}
            \/ /\ last.from = "RECEIVING_BODY"
               /\ (req.haveContentLength \/ req.chunkedResponse))
           => req.current_error = "ERROR_CONNECTION_CLOSED" /\ isComplete(req)
        /\ last.from \in {"EMPTY", "ERROR", "COMPLETE"}
           => req.state = last.from /\ req.current_error = last.err

\* The connection closed in the middle of a length-delimited body.
C7_ClosedInBody ==
    /\ last.op = "disconnect" /\ last.from = "RECEIVING_BODY"
    /\ req.haveContentLength
    /\ req.state = "ERROR" /\ req.current_error = "ERROR_CONNECTION_CLOSED"

\* C8: a transport error or a timeout in CONNECTING ends with error() =
\* ERROR_CANNOT_CONNECT; in a later state that is not terminal a transport
\* error gives ERROR_CONNECTION_CLOSED and a timeout ERROR_TIMEOUT.
C8_FailureMapping ==
    /\ (last.from = "CONNECTING" /\ last.op \in {"error", "timeout"})
         => req.current_error = "ERROR_CANNOT_CONNECT"
    /\ (last.from \in {"SENDING_REQUEST", "SENDING_BODY", "RECEIVING_STATUS_LINE",
                        "RECEIVING_HEADERS", "RECEIVING_BODY"})
         => /\ last.op = "error" => req.current_error = "ERROR_CONNECTION_CLOSED"
            /\ last.op = "timeout" => req.current_error = "ERROR_TIMEOUT"

\* C9: when the request is in ERROR and nothing is left to run, the error
\* callback has been invoked exactly once.
C9_ErrorCallbackOnce ==
    (req.state = "ERROR" /\ Quiescent) => Count("error") = 1

\* C10: the completion callback is never invoked twice, also when two
\* transport callbacks dispatch their notifications concurrently, and no
\* data callback follows it.
C10_CompletionOnce ==
    /\ Count("complete") <= 1
    /\ \A i, j \in 1..Len(aux.calls) :
          (aux.calls[i] = "complete" /\ aux.calls[j] = "data") => j < i

\* C11: a notification dispatch that finds the error flag raised delivers
\* only the error callback.  No dispatch ever finds it raised: the flag is
\* raised only by a send() that fails on an EMPTY request, and that request
\* never has a client whose events would dispatch.
C11_DispatchNeverFindsError ==
    \A c \in Contexts : pc[c] # "idle" => ~req.notify_error

\* C12: no user callback is invoked while the invoking context holds the
\* request's lock.
C12_NoCallbackUnderLock == aux.callsLocked = 0

\* A user callback is running on context c.
InCallback(c) == pc[c] \in {"in_error", "in_data", "in_complete"}

\* C13: two user callbacks of the request never run at the same time.
C13_CallbacksExclusive ==
    \A c, d \in Contexts : (InCallback(c) /\ InCallback(d)) => c = d

\* A send() got its mutex and its client, and connect() returned false.
ConnectFailed == req.mutex /\ conn = "none"

\* C20: when connect() fails inside send(), send() returns
\* ERROR_CANNOT_CONNECT; from then on the request is in ERROR with that
\* error, the outgoing buffer empty, no body and no client, and no later
\* send() starts a connection.
C20_ConnectFailureIsFinal ==
    ConnectFailed =>
        /\ req.state = "ERROR" /\ req.current_error = "ERROR_CANNOT_CONNECT"
        /\ req.buffer = NewBuffer /\ req.requestBody = NullPtr
        /\ ~req.client
        /\ (last.op = "send" /\ last.from = "EMPTY")
             => last.ret = "ERROR_CANNOT_CONNECT"

\* After the failed connect, send() was called again.
C20_SentAgainAfterFailure ==
    ConnectFailed /\ last.op = "send" /\ last.from = "ERROR" /\ aux.deletes = 1

\* The bytes the response body holds.
BodyContents ==
    IF req.responseBody = NullPtr THEN <<>> ELSE Contents(req.responseBody[1])

\* C14: once the stream is terminal a suspended readBytes() returns: when
\* body data has arrived, the request is complete and nothing is left to
\* run, no reader is left registered and waiting for a notification that
\* has not been given.
C14_WaitingReaderReturns ==
    ~(/\ rd.pc = "wait" /\ aux.taskNotify = 0 /\ req.reader_task = ReaderTask
      /\ Len(aux.appended) > 0 /\ isComplete(req) /\ Quiescent)

\* C15: readBytes() returns fewer bytes than asked for only when the request
\* is complete and the response body is empty, and the bytes it has taken
\* are the body bytes in the order they arrived.
C15_ShortOnlyAtEnd ==
    /\ (last.op = "readBytes" /\ Len(rd.filled) < rd.length)
         => isComplete(req) /\ BodyContents = <<>>
    /\ rd.got \o BodyContents = aux.appended

\* readBytes() returned some bytes, fewer than asked for, at the end.
C15_ReturnedShort ==
    /\ last.op = "readBytes" /\ rd.length = 20 /\ Len(rd.filled) = 11
    /\ req.state = "COMPLETE" /\ rd.got = S_HelloWorld

\* C16: no wake-up is lost.  While the reader is between its registration
\* and the return of ulTaskNotifyTake(), body data that has arrived since
\* the registration has notified its task and cleared the registration; and
\* a turn of the reader's loop leaves no body byte behind that it still
\* needs.
C16_NoLostWakeup ==
    /\ (rd.pc = "wait" /\ Len(aux.appended) > rd.seen)
         => req.reader_task = NoTask /\ aux.taskNotify > 0
    /\ (last.op \in {"readBytes", "readBytes_wait"} /\ Len(rd.filled) < rd.length)
         => BodyContents = <<>>

\* Body data arrived after the reader registered and before it suspended.
C16_DataBeforeSuspend ==
    /\ rd.pc = "wait" /\ last.op = "data" /\ Len(aux.appended) > rd.seen
    /\ aux.taskNotify = 1 /\ req.reader_task = NoTask

\* C17: whatever was done to a Buffer, available() is the number of bytes
\* written less the number consumed since the last clear(), and read(dest, n)
\* hands back min(n, available()) bytes.
C17_AvailableIsWrittenLessConsumed ==
    ~crashed =>
        /\ available(bt.buf) = Len(bt.written) - Len(bt.taken)
        /\ bt.op = "read" => Len(bt.out) = Min(bt.arg, available(bt.before))

\* A read() that asked for more than the buffer held, after reads, a
\* consume() or a readline() had taken some of it.
C17_ReadMoreThanAvailable ==
    /\ bt.op = "read" /\ bt.arg > available(bt.before)
    /\ available(bt.before) > HTTP_BUFFER_FRAGMENT_SIZE
    /\ Len(bt.out) = available(bt.before) /\ Len(bt.taken) > Len(bt.out)
    /\ bt.buf = NewBuffer

\* C18: the Buffer is a FIFO byte queue: the bytes taken out, followed by
\* the bytes still held, are the bytes written, in order; a read() hands
\* back the bytes that were at the front.
C18_FirstInFirstOut ==
    ~crashed =>
        /\ bt.taken \o Contents(bt.buf) = bt.written
        /\ bt.op = "read" =>
              bt.out = SubSeq(bt.written, Len(bt.taken) - Len(bt.out) + 1, Len(bt.taken))

\* Three fragments and seventeen bytes written and read back in one call.
C18_RoundTrip ==
    /\ bt.op = "read" /\ bt.arg = Len(BlockLong) /\ bt.ops = 2
    /\ bt.written = BlockLong /\ bt.out = BlockLong /\ bt.buf = NewBuffer

\* The bytes a buffer held before the last operation.
HeldBefore == Contents(bt.before)

\* C19: readline() on bytes without a newline returns no line and consumes
\* nothing; with a newline buffered it returns the bytes before the first
\* newline, less a CR that ends them, and consumes them with the newline,
\* so that the line is not returned again.
C19_ReadlineTakesOneLine ==
    bt.op = "readline" =>
        IF strchr(HeldBefore, LF) = 0
        THEN ~crashed /\ ~bt.found /\ bt.buf = bt.before
        ELSE /\ ~crashed /\ bt.found
             /\ bt.out \o <<LF>> \in
                    { SubSeq(HeldBefore, 1, strchr(HeldBefore, LF)),
                      SubSeq(HeldBefore, 1, strchr(HeldBefore, LF) - 2) \o <<LF>> }
             /\ (Len(bt.out) = strchr(HeldBefore, LF) - 2
                    => HeldBefore[strchr(HeldBefore, LF) - 1] = CR)
             /\ Contents(bt.buf) = Skip(HeldBefore, strchr(HeldBefore, LF))

\* send() was given a URL whose scheme it does not support.
SchemeFailed == req.current_error = "ERROR_SCHEME"

\* C21: after a send() with an unsupported scheme the request is in ERROR
\* with ERROR_SCHEME, has no mutex and no client, no connection was begun
\* and nothing was queued or sent; a send() in that state, the first and
\* every later one, returns ERROR_SCHEME.
C21_SchemeErrorIsFinal ==
    SchemeFailed =>
        /\ req.state = "ERROR" /\ ~req.client /\ ~req.mutex /\ conn = "none"
        /\ req.buffer = NewBuffer /\ aux.queued = <<>> /\ aux.sent = <<>>
        /\ aux.deletes = 0
        /\ last.op = "send" => last.ret = "ERROR_SCHEME"

\* A later send() on the request that failed with ERROR_SCHEME.
C21_SentAgainAfterSchemeError ==
    SchemeFailed /\ last.op = "send" /\ last.from = "ERROR" /\ last.err = "ERROR_SCHEME"

\* C22: a transport callback dispatches what it raised before it returns:
\* when the event has run and no context is left in post_notifications(),
\* no data or completion notification is still raised.
C22_RaisedIsDispatched ==
    (~crashed /\ last.op \in Events /\ \A c \in Contexts : pc[c] = "idle")
        => ~req.notify_data /\ ~req.notify_complete

\* The operation that ran last was a drain: sendData() in a connect or an
\* ack event.
Drained == last.op \in {"connect", "ack"}

C24_DrainedBufferLeavesState ==
    Drained =>
        /\ req.state = "SENDING_REQUEST" => available(req.buffer) > 0
        /\ req.state = "SENDING_BODY" =>
              req.requestBody # NullPtr /\ available(req.requestBody[1]) > 0

\* No call or event has failed the request.
Healthy == req.current_error = "ERROR_OK" /\ req.state # "ERROR"

\* C25: what is parsed of a response does not depend on how its bytes are
\* cut into data events: after each data event the status, the content
\* length, the body bytes and the state are those that one data event
\* with all the bytes received so far gives.
C25_SplitDoesNotMatter ==
    LET Same(u) ==
            /\ req.httpStatus = u.httpStatus
            /\ contentLength(req) = contentLength(u)
            /\ aux.appended = u.appended
            /\ req.state = u.state
    IN  (last.op = "data" /\ Healthy) => ~crashed /\ Same(Unsplit(aux.received))

\* C26: with a Content-Length parsed, the bytes counted and the bytes ever
\* appended to the body are no more than it; a completed body holds exactly
\* that many, so a data event that finds the request complete has appended
\* nothing.
C26_BodyWithinContentLength ==
    req.haveContentLength =>
        /\ req.dataReceived <= req.responseContentLength
        /\ Len(aux.appended) <= req.responseContentLength
        /\ req.state = "COMPLETE" => Len(aux.appended) = req.responseContentLength
        /\ (last.op = "data" /\ last.from = "COMPLETE")
              => Len(aux.appended) = req.responseContentLength

\* A data event met the request complete, the body cut at Content-Length.
C26_DataAfterComplete ==
    /\ last.op = "data" /\ last.from = "COMPLETE" /\ req.haveContentLength
    /\ aux.appended = S_HelloWorld /\ req.dataReceived = 11
    /\ aux.received = Flatten(<<P_Status, P_ContentLength11, P_Blank, P_HelloWorld, P_Hi>>)

\* C27: when an event has run on a healthy request whose headers are
\* finished and whose body has all the bytes of its Content-Length, the
\* request is COMPLETE and the completion notification has been raised.
C27_FullBodyCompletes ==
    (/\ ~crashed /\ last.op \in Events /\ Healthy
     /\ req.state \in {"RECEIVING_BODY", "COMPLETE"}
     /\ req.haveContentLength /\ req.dataReceived = req.responseContentLength)
        => /\ req.state = "COMPLETE"
           /\ req.notify_complete \/ Count("complete") > 0

\* C30: a data event does not fail the request, whatever it carries: it
\* does not stop the program, does not move the state to ERROR and does not
\* change error(); a status line without a space is consumed and leaves the
\* state, a header line without a colon is consumed and changes nothing.
C30_DataNeverFails ==
    last.op = "data" =>
        /\ ~crashed
        /\ req.state = "ERROR" => last.from = "ERROR"
        /\ req.current_error = last.err
        /\ (Healthy /\ aux.received = P_NoSpace)
              => req.state = "RECEIVING_STATUS_LINE" /\ req.buffer = NewBuffer
        /\ (Healthy /\ aux.received = P_NoSpace \o P_Status \o P_NoColon)
              => /\ req.state = "RECEIVING_HEADERS" /\ req.buffer = NewBuffer
                 /\ req.httpStatus = 200 /\ ~req.haveContentLength
                 /\ ~req.chunkedResponse /\ req.response_content_type = <<>>

\* C28: readline() on a line longer than `length` returns the first
\* length - 1 bytes of it and consumes the whole line with its newline, so
\* that the buffer goes on at the line that follows.
C28_OverlongLineDiscarded ==
    (bt.op = "readline" /\ ~crashed /\ strchr(HeldBefore, LF) > bt.arg)
        => /\ bt.found
           /\ bt.out = SubSeq(HeldBefore, 1, bt.arg - 1)
           /\ Contents(bt.buf) = Skip(HeldBefore, strchr(HeldBefore, LF))

\* Context c is inside post_notifications(), where its next step tests or
\* clears a notification flag.
AtFlags(c) == pc[c] \in {"post", "complete"} \/ InCallback(c)

\* C29: the notification flags are tested and cleared under the request's
\* lock: while one context is in post_notifications(), where it tests and
\* clears them, no other context is there too.
C29_FlagsUnderLock ==
    \A c, d \in Contexts : (AtFlags(c) /\ AtFlags(d)) => c = d

\* The completion callback or the error callback has been invoked.
Notified == Count("complete") > 0 \/ Count("error") > 0

\* C31: once the completion callback or the error callback has been
\* invoked and the dispatch is over, the request has no client; an event
\* of the transport that is handled after the callback was invoked leaves
\* the state, the error, the count of body bytes and the response body as
\* they were.
C31_NothingAfterNotification ==
    /\ (Notified /\ ~crashed /\ \A c \in Contexts : pc[c] = "idle") => ~req.client
    /\ (Notified /\ last.op \in Events)
          => /\ req.state = last.from
             /\ req.current_error = last.err
             /\ req.dataReceived = last.recv0
             /\ req.responseBody = last.body0

\* The fragments that hold bytes start..end-1 of all the bytes written,
\* counted in fragments from the first byte written since the Buffer was
\* last empty.
FragmentsInUse(b) ==
    IF b.start = b.end THEN 0
    ELSE (b.end + HTTP_BUFFER_FRAGMENT_SIZE - 1) \div HTTP_BUFFER_FRAGMENT_SIZE
         - b.start \div HTTP_BUFFER_FRAGMENT_SIZE

\* C32: after every operation on a Buffer start is at most end, there is no
\* first fragment exactly when nothing is available, and the chain has
\* exactly the fragments that hold bytes not yet consumed, the bytes written
\* and not yet taken.
C32_BufferWellFormed ==
    ~crashed =>
        /\ bt.buf.start <= bt.buf.end
        /\ bt.buf.frags = <<>> <=> available(bt.buf) = 0
        /\ Len(bt.buf.frags) = FragmentsInUse(bt.buf)
        /\ bt.op = "get" => bt.buf = bt.before

\* A read has emptied the first of four fragments and left three.
C32_FirstFragmentFreed ==
    /\ bt.op = "read" /\ bt.buf.start = HTTP_BUFFER_FRAGMENT_SIZE
    /\ Len(bt.before.frags) = 4 /\ Len(bt.buf.frags) = 3

\* The request was in a state in which handleData() takes no data.
MetSending == last.from \in {"SENDING_REQUEST", "SENDING_BODY"}

\* C33: a data event that comes when the transport has accepted every byte
\* of the request and its body does not meet the request in
\* SENDING_REQUEST or SENDING_BODY, where handleData() drops the data.
C33_ResponseNotDropped ==
    (last.op = "data" /\ last.sent0 = Len(aux.queued) /\ aux.queued # <<>>)
        => ~MetSending

\* post_notifications() has just invoked the completion callback; `last`
\* holds the state and the error at that moment.
CompletionInvoked == last.op = "dispatch" /\ \E c \in Contexts : pc[c] = "in_complete"

\* C34: when the completion callback is invoked the state is COMPLETE and
\* error() is ERROR_OK.
C34_CompletionMeansComplete ==
    CompletionInvoked => last.from = "COMPLETE" /\ last.err = "ERROR_OK"

\* C35: close_client() never closes and deletes a client that a handler on
\* another context has deleted since close_client() tested the pointer, and
\* the client is deleted at most once.
C35_ClientDeletedOnce ==
    ~aux.deadUse /\ aux.deletes <= 1

\* C36: processChunkedBodyData() comes to its end: every turn of its outer
\* loop leaves fewer bytes to handle than it found, and every turn of the
\* loop over the bytes that follow the digits of a chunk size moves on by
\* a byte.
C36_ChunkLoopsAdvance ==
    /\ (ck.pc = "outer" /\ ck.turns > 0) => ck.length < ck.length0
    /\ ck.pc = "inner" => ck.i > ck.i0

====
